---------------------------- MODULE Spec2Model ----------------------------
(***************************************************************************)
(* Model of the Akumuli compression core                                   *)
(* (libakumuli/storage_engine/compression.cpp): the FCM/DFCM predictors,   *)
(* the pair-based double codec (FcmStreamWriter / FcmStreamReader), the    *)
(* block writer (V2::DataBlockWriter) and the chunk reorder helpers.       *)
(*                                                                         *)
(* A 64-bit word (uint64_t, or the bit pattern of a double) is a tuple of  *)
(* 8 bytes, least significant byte first (host order of the byte stream).  *)
(***************************************************************************)
EXTENDS Integers, Sequences, FiniteSets, TLC

VARIABLES
    stream,   \* Base128StreamWriter: [buf |-> bytes in [begin_, pos_), end |-> end_ - begin_,
              \*   committed |-> commit() was called, late |-> a put_raw came after it]
    cap,      \* size of the caller-supplied buffer
    prior,    \* byte value the caller's buffer holds before the session
    input,    \* the samples the caller feeds, as chosen so far
    vw,       \* FcmStreamWriter (val_stream_)
    tw,       \* DeltaRLEWriter (ts_stream_)
    blk,      \* DataBlockWriter fields
    pc,       \* position of the session
    hist,     \* per call: what was put and what it returned
    rd,       \* FcmStreamReader
    vout,     \* values returned by FcmStreamReader::next so far
    chunk,    \* UncompressedChunk given to the reorder helpers (header)
    out,      \* UncompressedChunk the reorder helpers fill (out)
    ret,      \* what the reorder helper, encode_block or decode_block returned
    slice,    \* SeriesSlice given to encode_block
    dest      \* SeriesSlice given to decode_block

vars == <<stream, cap, prior, input, vw, tw, blk, pc, hist, rd, vout, chunk, out, ret,
          slice, dest>>

---------------------------------------------------------------------------
(* Bit and byte arithmetic on machine words *)

Zero64 == <<0, 0, 0, 0, 0, 0, 0, 0>>

\* Only({e : x \in {v}}) is e with x naming the value of v, computed once
Only(S) == CHOOSE x \in S : TRUE

RECURSIVE BitXor(_, _)
BitXor(a, b) ==
    IF a = 0 THEN b
    ELSE IF b = 0 THEN a
    ELSE ((a + b) % 2) + 2 * BitXor(a \div 2, b \div 2)

RECURSIVE BitAnd(_, _)
BitAnd(a, b) ==
    IF a = 0 \/ b = 0 THEN 0
    ELSE ((a % 2) * (b % 2)) + 2 * BitAnd(a \div 2, b \div 2)

BitOr(a, b) == a + b - BitAnd(a, b)

Xor64(a, b) == [i \in 1..8 |-> BitXor(a[i], b[i])]

RECURSIVE AddCarry(_, _, _, _)
AddCarry(a, b, i, c) ==
    IF i > 8 THEN <<>>
    ELSE LET s == a[i] + b[i] + c
         IN  <<s % 256>> \o AddCarry(a, b, i + 1, s \div 256)

\* uint64_t addition and subtraction wrap modulo 2^64
Add64(a, b) == AddCarry(a, b, 1, 0)
Sub64(a, b) == AddCarry(a, [i \in 1..8 |-> 255 - b[i]], 1, 1)

\* v >> (8*k) and v << (8*k) on uint64_t
ShrBytes(v, k) == [i \in 1..8 |-> IF i + k <= 8 THEN v[i + k] ELSE 0]
ShlBytes(v, k) == [i \in 1..8 |-> IF i - k >= 1 THEN v[i - k] ELSE 0]

RECURSIVE BitLen(_)
BitLen(b) == IF b = 0 THEN 0 ELSE 1 + BitLen(b \div 2)

RECURSIVE Ctz8(_)
Ctz8(b) == IF b % 2 = 1 THEN 0 ELSE 1 + Ctz8(b \div 2)

\* __builtin_ctzl / __builtin_clzl for a non-zero 64-bit word
ctzl(v) ==
    LET i == CHOOSE k \in 1..8 : v[k] # 0 /\ \A j \in 1..(k - 1) : v[j] = 0
    IN  8 * (i - 1) + Ctz8(v[i])

clzl(v) ==
    LET i == CHOOSE k \in 1..8 : v[k] # 0 /\ \A j \in (k + 1)..8 : v[j] = 0
    IN  8 * (8 - i) + (8 - BitLen(v[i]))

---------------------------------------------------------------------------
(* Predictors *)

PREDICTOR_N == 1024

\* samples per chunk (compression.h)
CHUNK_SIZE == 16
CHUNK_MASK == CHUNK_SIZE - 1

\* std::vector<uint64_t> table, resized to table_size zeros: kept as the
\* function from the indexes that hold a non-zero word to that word.
TableAt(table, h) == IF h \in DOMAIN table THEN table[h] ELSE Zero64

TableSet(table, h, v) ==
    LET d == IF v = Zero64 THEN DOMAIN table \ {h} ELSE DOMAIN table \cup {h}
    IN  [i \in d |-> IF i = h THEN v ELSE table[i]]

EmptyTable == [i \in {} |-> Zero64]

\* FcmPredictor::FcmPredictor / DfcmPredictor::DfcmPredictor
NewPredictor(kind, table_size) ==
    [kind |-> kind, table |-> EmptyTable, last_hash |-> 0,
     last_value |-> Zero64, MASK |-> table_size - 1]

FcmPredictor_predict_next(p) == TableAt(p.table, p.last_hash)

FcmPredictor_update(p, value) ==
    [p EXCEPT !.table = TableSet(p.table, p.last_hash, value),
              !.last_hash = BitAnd(BitXor(p.last_hash * 64,
                                          value[7] + 256 * value[8]), p.MASK)]

DfcmPredictor_predict_next(p) == Add64(TableAt(p.table, p.last_hash), p.last_value)

DfcmPredictor_update(p, value) ==
    Only({ [p EXCEPT !.table = TableSet(p.table, p.last_hash, delta),
                     !.last_hash = BitAnd(BitXor(p.last_hash * 4,
                                      delta[6] + 256 * delta[7] + 65536 * delta[8]),
                                      p.MASK),
                     !.last_value = value]
           : delta \in {Sub64(value, p.last_value)} })

\* update that forgets to store into the table
update_no_store(p, value) == [p EXCEPT !.last_value = value]

\* PredictorT is one of the two predictors
predict_next(p) ==
    IF p.kind = "fcm" THEN FcmPredictor_predict_next(p)
    ELSE DfcmPredictor_predict_next(p)

update(p, value) ==
    IF p.kind = "fcm" THEN FcmPredictor_update(p, value)
    ELSE DfcmPredictor_update(p, value)

---------------------------------------------------------------------------
(* Byte stream (Base128StreamWriter / Base128StreamReader) *)

\* Base128StreamWriter(begin, end) over a buffer that holds `fill` everywhere
NewStream(size) == [buf |-> <<>>, end |-> size, committed |-> FALSE, late |-> FALSE]

space_left(s) == s.end - Len(s.buf)

\* put_raw<T>(value): sizeof(T) bytes in host order, or false and nothing written
put_raw(s, bytes) ==
    IF space_left(s) < Len(bytes)
    THEN [ok |-> FALSE, s |-> [s EXCEPT !.late = @ \/ s.committed]]
    ELSE [ok |-> TRUE, s |-> [s EXCEPT !.buf = @ \o bytes, !.late = @ \/ s.committed]]

\* allocate<T>(): reserves sizeof(T) bytes, which keep what the buffer held;
\* the handle is the offset of the reserved bytes, -1 for nullptr
allocate(s, n, fill) ==
    IF space_left(s) < n
    THEN [ptr |-> -1, s |-> s]
    ELSE [ptr |-> Len(s.buf), s |-> [s EXCEPT !.buf = @ \o [i \in 1..n |-> fill]]]

\* Base128StreamWriter::commit
stream_commit(s) == [ok |-> TRUE, s |-> [s EXCEPT !.committed = TRUE]]

\* read_raw<unsigned char>() at offset pos of data: underflow fails the decode
read_raw_u8(data, pos) ==
    IF pos + 1 > Len(data)
    THEN [ok |-> FALSE, v |-> 0, pos |-> pos]
    ELSE [ok |-> TRUE, v |-> data[pos + 1], pos |-> pos + 1]

\* read_raw<uint64_t>() / read_raw<double>()
read_raw_u64(data, pos) ==
    IF pos + 8 > Len(data)
    THEN [ok |-> FALSE, v |-> Zero64, pos |-> pos]
    ELSE [ok |-> TRUE, v |-> SubSeq(data, pos + 1, pos + 8), pos |-> pos + 8]

\* read_raw<uint16_t>()
read_raw_u16(data, pos) ==
    IF pos + 2 > Len(data)
    THEN [ok |-> FALSE, v |-> 0, pos |-> pos]
    ELSE [ok |-> TRUE, v |-> data[pos + 1] + 256 * data[pos + 2], pos |-> pos + 2]

---------------------------------------------------------------------------
(* Double codec *)

\* The put_raw calls encode_value makes for nbytes, as <<first byte, width>>
\* pairs over the shifted diff (the switch falls through from case to case)
encode_pieces(nbytes) ==
    CASE nbytes = 8 -> << <<1, 8>> >>
      [] nbytes = 7 -> << <<1, 1>>, <<2, 1>>, <<3, 1>>, <<4, 4>> >>
      [] nbytes = 6 -> << <<1, 1>>, <<2, 1>>, <<3, 4>> >>
      [] nbytes = 5 -> << <<1, 1>>, <<2, 4>> >>
      [] nbytes = 4 -> << <<1, 4>> >>
      [] nbytes = 3 -> << <<1, 1>>, <<2, 1>>, <<3, 1>> >>
      [] nbytes = 2 -> << <<1, 1>>, <<2, 1>> >>
      [] nbytes = 1 -> << <<1, 1>> >>

RECURSIVE put_pieces(_, _, _)
put_pieces(s, diff, pieces) ==
    IF pieces = <<>> THEN [ok |-> TRUE, s |-> s]
    ELSE Only({ IF ~r.ok THEN r ELSE put_pieces(r.s, diff, Tail(pieces))
                : r \in {put_raw(s, SubSeq(diff, Head(pieces)[1],
                                           Head(pieces)[1] + Head(pieces)[2] - 1))} })

\* encode_value without the `diff >>= nshift` step
encode_value_no_shift(wstream, diff, flag) ==
    put_pieces(wstream, diff, encode_pieces(BitAnd(flag, 7) + 1))

encode_value(wstream, diff, flag) ==
    LET nbytes == BitAnd(flag, 7) + 1
        nshift == (64 - nbytes * 8) * (flag \div 8)
    IN  Only({ put_pieces(wstream, shifted, encode_pieces(nbytes))
               : shifted \in {ShrBytes(diff, nshift \div 8)} })

RECURSIVE read_bytes(_, _, _, _)
read_bytes(data, pos, i, nbytes) ==
    IF i >= nbytes THEN [ok |-> TRUE, diff |-> Zero64, pos |-> pos]
    ELSE Only({ IF ~b.ok THEN [ok |-> FALSE, diff |-> Zero64, pos |-> pos]
                ELSE [read_bytes(data, b.pos, i + 1, nbytes)
                          EXCEPT !.diff = [@ EXCEPT ![i + 1] = b.v]]
                : b \in {read_raw_u8(data, pos)} })

decode_value(data, pos, flag) ==
    LET nbytes == BitAnd(flag, 7) + 1
        shift_width == (64 - nbytes * 8) * (flag \div 8)
    IN  [read_bytes(data, pos, 0, nbytes) EXCEPT !.diff = ShlBytes(@, shift_width \div 8)]

\* FcmStreamWriter::FcmStreamWriter
NewFcmStreamWriter(kind) ==
    [predictor |-> NewPredictor(kind, PREDICTOR_N), prev_diff |-> Zero64,
     prev_flag |-> 0, nelements |-> 0]

\* fcm_flag with the `nbytes--` step forgotten
fcm_flag_no_decrement(diff) ==
    LET trailing_zeros == IF diff # Zero64 THEN ctzl(diff) ELSE 64
        leading_zeros == IF diff # Zero64 THEN clzl(diff) ELSE 64
        high == trailing_zeros > leading_zeros
        nbytes == IF high THEN 8 - trailing_zeros \div 8 ELSE 8 - leading_zeros \div 8
    IN  IF high THEN BitOr(8, BitAnd(nbytes, 7)) ELSE BitAnd(nbytes, 7)

\* the flag FcmStreamWriter::put computes for diff
fcm_flag(diff) ==
    LET trailing_zeros == IF diff # Zero64 THEN ctzl(diff) ELSE 64
        leading_zeros == IF diff # Zero64 THEN clzl(diff) ELSE 64
        high == trailing_zeros > leading_zeros
        n0 == IF high THEN 8 - trailing_zeros \div 8 ELSE 8 - leading_zeros \div 8
        nbytes == IF n0 > 0 THEN n0 - 1 ELSE n0
    IN  IF high THEN BitOr(8, BitAnd(nbytes, 7)) ELSE BitAnd(nbytes, 7)

\* FcmStreamWriter::put: [ok, s: the stream, w: the writer]
FcmStreamWriter_put(s, w, value) ==
    Only({
      Only({
        IF w.nelements % 2 = 0
        THEN [ok |-> TRUE, s |-> s,
              w |-> [w1 EXCEPT !.prev_diff = diff, !.prev_flag = flag,
                               !.nelements = @ + 1]]
        ELSE Only({
               IF ~r1.ok THEN [ok |-> FALSE, s |-> r1.s, w |-> w1]
               ELSE Only({
                 IF ~r2.ok THEN [ok |-> FALSE, s |-> r2.s, w |-> w1]
                 ELSE Only({
                   IF ~r3.ok THEN [ok |-> FALSE, s |-> r3.s, w |-> w1]
                   ELSE [ok |-> TRUE, s |-> r3.s, w |-> [w1 EXCEPT !.nelements = @ + 1]]
                   : r3 \in {encode_value(r2.s, diff, flag)} })
                 : r2 \in {encode_value(r1.s, w.prev_diff, w.prev_flag)} })
               : r1 \in {put_raw(s, <<BitOr(w.prev_flag * 16, flag) % 256>>)} })
        : flag \in {fcm_flag(diff)},
          w1 \in {[w EXCEPT !.predictor = update(w.predictor, value)]} })
      : diff \in {Xor64(value, predict_next(w.predictor))} })

\* FcmStreamWriter::commit without the padding sample of an odd count
FcmStreamWriter_commit_no_pad(s, w) ==
    IF w.nelements % 2 # 0
    THEN Only({
           IF ~r1.ok THEN [ok |-> FALSE, s |-> r1.s, w |-> w]
           ELSE Only({
             IF ~r2.ok THEN [ok |-> FALSE, s |-> r2.s, w |-> w]
             ELSE [ok |-> stream_commit(r2.s).ok, s |-> stream_commit(r2.s).s, w |-> w]
             : r2 \in {encode_value(r1.s, w.prev_diff, w.prev_flag)} })
           : r1 \in {put_raw(s, <<(w.prev_flag * 16) % 256>>)} })
    ELSE [ok |-> stream_commit(s).ok, s |-> stream_commit(s).s, w |-> w]

\* FcmStreamWriter::commit
FcmStreamWriter_commit(s, w) ==
    IF w.nelements % 2 # 0
    THEN Only({
           IF ~r1.ok THEN [ok |-> FALSE, s |-> r1.s, w |-> w]
           ELSE Only({
             IF ~r2.ok THEN [ok |-> FALSE, s |-> r2.s, w |-> w]
             ELSE Only({
               IF ~r3.ok THEN [ok |-> FALSE, s |-> r3.s, w |-> w]
               ELSE [ok |-> stream_commit(r3.s).ok, s |-> stream_commit(r3.s).s, w |-> w]
               : r3 \in {encode_value(r2.s, Zero64, 0)} })
             : r2 \in {encode_value(r1.s, w.prev_diff, w.prev_flag)} })
           : r1 \in {put_raw(s, <<(w.prev_flag * 16) % 256>>)} })
    ELSE [ok |-> stream_commit(s).ok, s |-> stream_commit(s).s, w |-> w]

\* FcmStreamWriter::tput
RECURSIVE FcmStreamWriter_tput_from(_, _, _, _)
FcmStreamWriter_tput_from(s, w, values, i) ==
    IF i > Len(values) THEN FcmStreamWriter_commit(s, w)
    ELSE Only({ IF ~r.ok THEN r ELSE FcmStreamWriter_tput_from(r.s, r.w, values, i + 1)
                : r \in {FcmStreamWriter_put(s, w, values[i])} })

FcmStreamWriter_tput(s, w, values) == FcmStreamWriter_tput_from(s, w, values, 1)

\* FcmStreamReader::FcmStreamReader; pos is the position of its stream_
NewFcmStreamReader(kind) ==
    [predictor |-> NewPredictor(kind, PREDICTOR_N), flags |-> 0, iter |-> 0]

\* FcmStreamReader::next updating its predictor with the residual instead of
\* the reconstructed bits
FcmStreamReader_next_diff(data, pos, r) ==
    Only({
      Only({
        [ok |-> c.ok /\ d.ok,
         r |-> [r EXCEPT !.iter = @ + 1, !.flags = c.v,
                         !.predictor = update(r.predictor, d.diff)],
         pos |-> d.pos, value |-> Xor64(predict_next(r.predictor), d.diff)]
        : d \in {decode_value(data, c.pos,
                    IF r.iter % 2 = 0 THEN (c.v \div 16) % 256 ELSE BitAnd(c.v, 15))} })
      : c \in {IF r.iter % 2 = 0 THEN read_raw_u8(data, pos)
               ELSE [ok |-> TRUE, v |-> r.flags, pos |-> pos]} })

\* FcmStreamReader::next: [ok, r: the reader, pos, value]
FcmStreamReader_next(data, pos, r) ==
    Only({
      IF ~c.ok
      THEN [ok |-> FALSE, r |-> [r EXCEPT !.iter = @ + 1], pos |-> pos, value |-> Zero64]
      ELSE Only({
        IF ~d.ok
        THEN [ok |-> FALSE, r |-> [r EXCEPT !.iter = @ + 1, !.flags = c.v],
              pos |-> d.pos, value |-> Zero64]
        ELSE Only({
          [ok |-> TRUE,
           r |-> [r EXCEPT !.iter = @ + 1, !.flags = c.v,
                           !.predictor = update(r.predictor, bits)],
           pos |-> d.pos, value |-> bits]
          : bits \in {Xor64(predict_next(r.predictor), d.diff)} })
        : d \in {decode_value(data, c.pos,
                    IF r.iter % 2 = 0 THEN (c.v \div 16) % 256 ELSE BitAnd(c.v, 15))} })
      : c \in {IF r.iter % 2 = 0 THEN read_raw_u8(data, pos)
               ELSE [ok |-> TRUE, v |-> r.flags, pos |-> pos]} })

---------------------------------------------------------------------------
(* Timestamp codec (DeltaRLEWriter / DeltaRLEReader): delta against the     *)
(* previous timestamp, runs of equal deltas collapsed to (count, delta),   *)
(* both written as base-128 variable-length integers                       *)

\* a small count as a 64-bit word
U64(n) == [i \in 1..8 |-> IF i <= 3 THEN (n \div (256 ^ (i - 1))) % 256 ELSE 0]

Bit64(v, i) == (v[(i \div 8) + 1] \div (2 ^ (i % 8))) % 2

Group7(v, g) ==
    LET b(j) == IF 7 * g + j <= 63 THEN Bit64(v, 7 * g + j) ELSE 0
    IN  b(0) + 2 * b(1) + 4 * b(2) + 8 * b(3) + 16 * b(4) + 32 * b(5) + 64 * b(6)

\* the base-128 bytes of a 64-bit word: 7 bits per byte, low group first,
\* bit 7 set on every byte but the last
base128(v) ==
    Only({ [g \in 1..n |-> Group7(v, g - 1) + (IF g < n THEN 128 ELSE 0)]
           : n \in {IF v = Zero64 THEN 1 ELSE (64 - clzl(v) + 6) \div 7} })

\* Base128StreamWriter::put: the whole integer or nothing
base128_put(s, v) == put_raw(s, base128(v))

\* the groups of one base-128 integer starting at pos (at most 10 bytes)
RECURSIVE base128_groups(_, _, _)
base128_groups(data, pos, n) ==
    IF pos + 1 > Len(data) \/ n >= 10 THEN [ok |-> FALSE, gs |-> <<>>, pos |-> pos]
    ELSE LET b == data[pos + 1]
         IN  IF b < 128 THEN [ok |-> TRUE, gs |-> <<b>>, pos |-> pos + 1]
             ELSE LET r == base128_groups(data, pos + 1, n + 1)
                  IN  [r EXCEPT !.gs = <<b - 128>> \o @]

\* Base128StreamReader::next
base128_get(data, pos) ==
    Only({
      LET bit(i) == IF i \div 7 < Len(r.gs)
                    THEN (r.gs[(i \div 7) + 1] \div (2 ^ (i % 7))) % 2 ELSE 0
          byte(k) == bit(8 * k) + 2 * bit(8 * k + 1) + 4 * bit(8 * k + 2)
                     + 8 * bit(8 * k + 3) + 16 * bit(8 * k + 4) + 32 * bit(8 * k + 5)
                     + 64 * bit(8 * k + 6) + 128 * bit(8 * k + 7)
      IN  [ok |-> r.ok, v |-> [i \in 1..8 |-> byte(i - 1)], pos |-> r.pos]
      : r \in {base128_groups(data, pos, 0)} })

NewDeltaRLEWriter == [prev |-> Zero64, run |-> Zero64, reps |-> 0]

\* DeltaRLEWriter::put: [ok, s, w]
DeltaRLEWriter_put(s, w, value) ==
    Only({
      IF delta # w.run
      THEN IF w.reps > 0
           THEN Only({
                  IF ~r1.ok THEN [ok |-> FALSE, s |-> r1.s, w |-> [w EXCEPT !.prev = value]]
                  ELSE Only({
                    IF ~r2.ok THEN [ok |-> FALSE, s |-> r2.s, w |-> [w EXCEPT !.prev = value]]
                    ELSE [ok |-> TRUE, s |-> r2.s,
                          w |-> [prev |-> value, run |-> delta, reps |-> 1]]
                    : r2 \in {base128_put(r1.s, w.run)} })
                  : r1 \in {base128_put(s, U64(w.reps))} })
           ELSE [ok |-> TRUE, s |-> s, w |-> [prev |-> value, run |-> delta, reps |-> 1]]
      ELSE [ok |-> TRUE, s |-> s, w |-> [w EXCEPT !.prev = value, !.reps = @ + 1]]
      : delta \in {Sub64(value, w.prev)} })

\* DeltaRLEWriter::commit: the open run is written and a new one starts
\* (only the commit of FcmStreamWriter is known to reach the byte stream's
\* commit, so this one is not counted as one)
DeltaRLEWriter_commit(s, w) ==
    Only({
      IF ~r1.ok THEN [ok |-> FALSE, s |-> r1.s, w |-> w]
      ELSE Only({
        IF ~r2.ok THEN [ok |-> FALSE, s |-> r2.s, w |-> w]
        ELSE [ok |-> TRUE, s |-> r2.s,
              w |-> [w EXCEPT !.run = Zero64, !.reps = 0]]
        : r2 \in {base128_put(r1.s, w.run)} })
      : r1 \in {base128_put(s, U64(w.reps))} })

\* DeltaRLEWriter::tput
RECURSIVE DeltaRLEWriter_tput_from(_, _, _, _)
DeltaRLEWriter_tput_from(s, w, values, i) ==
    IF i > Len(values) THEN DeltaRLEWriter_commit(s, w)
    ELSE Only({ IF ~r.ok THEN r ELSE DeltaRLEWriter_tput_from(r.s, r.w, values, i + 1)
                : r \in {DeltaRLEWriter_put(s, w, values[i])} })

DeltaRLEWriter_tput(s, w, values) == DeltaRLEWriter_tput_from(s, w, values, 1)

NewDeltaRLEReader == [prev |-> Zero64, run |-> Zero64, reps |-> 0]

\* DeltaRLEReader::next: [ok, r, pos, value]; a run of no elements, or of more
\* elements than a block can count, is bad data
DeltaRLEReader_next(data, pos, r) ==
    IF r.reps > 0
    THEN Only({ [ok |-> TRUE, r |-> [r EXCEPT !.prev = v, !.reps = @ - 1],
                 pos |-> pos, value |-> v]
                : v \in {Add64(r.prev, r.run)} })
    ELSE Only({
      Only({
        LET n == c.v[1] + 256 * c.v[2]
        IN  IF ~c.ok \/ ~d.ok \/ n = 0 \/ \E i \in 3..8 : c.v[i] # 0
            THEN [ok |-> FALSE, r |-> r, pos |-> pos, value |-> Zero64]
            ELSE [ok |-> TRUE, r |-> [prev |-> v, run |-> d.v, reps |-> n - 1],
                  pos |-> d.pos, value |-> v]
        : v \in {Add64(r.prev, d.v)} })
      : c \in {base128_get(data, pos)}, d \in {base128_get(data, base128_get(data, pos).pos)} })

---------------------------------------------------------------------------
(* Block writer (V2::DataBlockWriter) *)

\* the 16-bit version tag put at the head of a block
AKUMULI_VERSION == 101

U16(n) == <<n % 256, (n \div 256) % 256>>

\* stream_ built with its end one byte past the caller's buffer
DataBlockWriter_stream_past_end(size) == NewStream(size + 1)

\* the stream_ member: Base128StreamWriter(buf, buf + size)
DataBlockWriter_stream(size) == NewStream(size)

\* DataBlockWriter::DataBlockWriter(id, buf, size) on a buffer filled with
\* `fill`; asserts tells whether the build keeps assert(). ok is false where
\* the constructor ends in AKU_PANIC.
DataBlockWriter_new(id, size, fill, asserts) ==
    LET s0 == DataBlockWriter_stream(size)
        r1 == put_raw(s0, U16(AKUMULI_VERSION))
        a2 == allocate(r1.s, 2, fill)
        a3 == allocate(a2.s, 2, fill)
        r4 == put_raw(a3.s, id)
        success == r4.ok /\ r1.ok
    IN  [ok |-> ~(~success \/ a2.ptr = -1 \/ a3.ptr = -1),
         s |-> r4.s,
         ts_stream |-> NewDeltaRLEWriter,
         w |-> [write_index |-> 0,
                ts_writebuf |-> [i \in 1..CHUNK_SIZE |-> Zero64],
                val_writebuf |-> [i \in 1..CHUNK_SIZE |-> Zero64],
                pmain_size |-> a2.ptr, ptail_size |-> a3.ptr,
                asserts |-> asserts]]

\* DataBlockWriter::room_for_chunk
MARGIN == 10 * 16 + 9 * 16

\* room_for_chunk with the comparison turned round
room_for_chunk_inverted(s) ==
    LET free_space == space_left(s)
    IN  IF free_space >= MARGIN THEN FALSE ELSE TRUE

room_for_chunk(s) ==
    LET free_space == space_left(s)
    IN  IF free_space < MARGIN THEN FALSE ELSE TRUE

\* the uint16_t at offset p of the buffer, and the buffer with it stored
load_u16(buf, p) == buf[p + 1] + 256 * buf[p + 2]
store_u16(buf, p, n) == [buf EXCEPT ![p + 1] = n % 256, ![p + 2] = (n \div 256) % 256]

\* DataBlockWriter::put: [status, path, s, ts_stream, val_stream, w]
DataBlockWriter_put(s, ts_stream, val_stream, w, ts, value) ==
    IF room_for_chunk(s)
    THEN Only({
           IF BitAnd(w1.write_index, CHUNK_MASK) = 0
           THEN Only({
                  IF t.ok
                  THEN Only({
                         IF v.ok
                         THEN [status |-> "success", path |-> "flush", s |-> v.s,
                               ts_stream |-> t.w, val_stream |-> v.w,
                               \* pmain_size_ += CHUNK_SIZE moves the uint16_t pointer
                               w |-> [w1 EXCEPT !.pmain_size = @ + 2 * CHUNK_SIZE]]
                         ELSE [status |-> IF w.asserts THEN "abort" ELSE "overflow",
                               path |-> "flush", s |-> v.s,
                               ts_stream |-> t.w, val_stream |-> v.w, w |-> w1]
                         : v \in {FcmStreamWriter_tput(t.s, val_stream, w1.val_writebuf)} })
                  ELSE [status |-> IF w.asserts THEN "abort" ELSE "overflow",
                        path |-> "flush", s |-> t.s,
                        ts_stream |-> t.w, val_stream |-> val_stream, w |-> w1]
                  : t \in {DeltaRLEWriter_tput(s, ts_stream, w1.ts_writebuf)} })
           ELSE [status |-> "success", path |-> "scratch", s |-> s,
                 ts_stream |-> ts_stream, val_stream |-> val_stream, w |-> w1]
           : w1 \in {[w EXCEPT !.ts_writebuf[BitAnd(w.write_index, CHUNK_MASK) + 1] = ts,
                              !.val_writebuf[BitAnd(w.write_index, CHUNK_MASK) + 1] = value,
                              !.write_index = @ + 1]} })
    ELSE IF w.asserts /\ BitAnd(w.write_index, CHUNK_MASK) # 0
    THEN [status |-> "abort", path |-> "tail", s |-> s,
          ts_stream |-> ts_stream, val_stream |-> val_stream, w |-> w]
    ELSE Only({
           IF r1.ok
           THEN Only({
                  IF r2.ok
                  THEN [status |-> "success", path |-> "tail",
                        s |-> [r2.s EXCEPT !.buf = store_u16(@, w.ptail_size,
                                              load_u16(@, w.ptail_size) + 1)],
                        ts_stream |-> ts_stream, val_stream |-> val_stream,
                        w |-> [w EXCEPT !.write_index = @ + 1]]
                  ELSE [status |-> "overflow", path |-> "tail", s |-> r2.s,
                        ts_stream |-> ts_stream, val_stream |-> val_stream,
                        w |-> [w EXCEPT !.write_index = @ + 1]]
                  : r2 \in {put_raw(r1.s, value)} })
           ELSE [status |-> "overflow", path |-> "tail", s |-> r1.s,
                 ts_stream |-> ts_stream, val_stream |-> val_stream,
                 w |-> [w EXCEPT !.write_index = @ + 1]]
           : r1 \in {put_raw(s, ts)} })

\* DataBlockWriter::close
DataBlockWriter_close(s, w) == [s |-> s, w |-> w]

---------------------------------------------------------------------------
(* Block reader (DataBlockReader): the header, then main_size / CHUNK_SIZE  *)
(* chunks of 16 timestamps and 16 values, then tail_size raw pairs         *)

RECURSIVE read_timestamps(_, _, _, _)
read_timestamps(data, pos, r, n) ==
    IF n = 0 THEN [ok |-> TRUE, r |-> r, pos |-> pos, vals |-> <<>>]
    ELSE Only({ IF ~x.ok THEN [ok |-> FALSE, r |-> r, pos |-> pos, vals |-> <<>>]
                ELSE [read_timestamps(data, x.pos, x.r, n - 1)
                          EXCEPT !.vals = <<x.value>> \o @]
                : x \in {DeltaRLEReader_next(data, pos, r)} })

RECURSIVE read_values(_, _, _, _)
read_values(data, pos, r, n) ==
    IF n = 0 THEN [ok |-> TRUE, r |-> r, pos |-> pos, vals |-> <<>>]
    ELSE Only({ IF ~x.ok THEN [ok |-> FALSE, r |-> r, pos |-> pos, vals |-> <<>>]
                ELSE [read_values(data, x.pos, x.r, n - 1)
                          EXCEPT !.vals = <<x.value>> \o @]
                : x \in {FcmStreamReader_next(data, pos, r)} })

Zip(tss, vals) == [i \in 1..Len(tss) |-> [ts |-> tss[i], value |-> vals[i]]]

RECURSIVE read_chunks(_, _, _, _, _)
read_chunks(data, pos, tr, vr, n) ==
    IF n = 0 THEN [ok |-> TRUE, pos |-> pos, samples |-> <<>>]
    ELSE Only({
           IF ~t.ok THEN [ok |-> FALSE, pos |-> pos, samples |-> <<>>]
           ELSE Only({
                  IF ~v.ok THEN [ok |-> FALSE, pos |-> pos, samples |-> <<>>]
                  ELSE [read_chunks(data, v.pos, t.r, v.r, n - 1)
                            EXCEPT !.samples = Zip(t.vals, v.vals) \o @]
                  : v \in {read_values(data, t.pos, vr, CHUNK_SIZE)} })
           : t \in {read_timestamps(data, pos, tr, CHUNK_SIZE)} })

RECURSIVE read_tail(_, _, _)
read_tail(data, pos, n) ==
    IF n = 0 THEN [ok |-> TRUE, pos |-> pos, samples |-> <<>>]
    ELSE IF pos + 16 > Len(data) THEN [ok |-> FALSE, pos |-> pos, samples |-> <<>>]
    ELSE [read_tail(data, pos + 16, n - 1)
              EXCEPT !.samples = <<[ts |-> read_raw_u64(data, pos).v,
                                    value |-> read_raw_u64(data, pos + 8).v]>> \o @]

\* the header of a block and, where the whole block decodes, its samples
DataBlockReader_read(data, kind) ==
    LET hdr == [version |-> read_raw_u16(data, 0).v,
                main_size |-> read_raw_u16(data, 2).v,
                tail_size |-> read_raw_u16(data, 4).v,
                series_id |-> read_raw_u64(data, 6).v]
    IN  IF ~read_raw_u64(data, 6).ok \/ hdr.version # AKUMULI_VERSION
        THEN [ok |-> FALSE, header |-> hdr, samples |-> <<>>]
        ELSE Only({
               IF ~c.ok THEN [ok |-> FALSE, header |-> hdr, samples |-> <<>>]
               ELSE Only({
                      IF ~t.ok THEN [ok |-> FALSE, header |-> hdr, samples |-> <<>>]
                      ELSE [ok |-> TRUE, header |-> hdr, samples |-> c.samples \o t.samples]
                      : t \in {read_tail(data, c.pos, hdr.tail_size)} })
               : c \in {read_chunks(data, 14, NewDeltaRLEReader, NewFcmStreamReader(kind),
                                    hdr.main_size \div CHUNK_SIZE)} })

---------------------------------------------------------------------------
(* Block functions on a SeriesSlice: CompressionUtil::encode_block and      *)
(* CompressionUtil::decode_block. A slice is [id, ts, value, size, offset], *)
(* ts and value being the arrays of `size` elements behind its pointers    *)

BATCH_SIZE == 16

U32(n) == <<n % 256, (n \div 256) % 256, (n \div 65536) % 256, (n \div 16777216) % 256>>

load_u32(buf, p) ==
    buf[p + 1] + 256 * buf[p + 2] + 65536 * buf[p + 3] + 16777216 * buf[p + 4]

\* a store through a handle that allocate returned
store_bytes(buf, p, bytes) ==
    [i \in 1..Len(buf) |-> IF i > p /\ i <= p + Len(bytes) THEN bytes[i - p] ELSE buf[i]]

\* encode_block, large loop: [s, tw, vw, count, dropped]; dropped tells that
\* some write did not fit
RECURSIVE encode_batches(_, _, _, _)
encode_batches(st, slice_, ix, batchend) ==
    IF ix >= batchend THEN st
    ELSE Only({
           IF ~t.ok
           THEN [st EXCEPT !.s = t.s, !.tw = t.w, !.dropped = TRUE]
           ELSE Only({
                  IF ~v.ok
                  THEN [st EXCEPT !.s = v.s, !.tw = t.w, !.vw = v.w, !.dropped = TRUE]
                  ELSE encode_batches([st EXCEPT !.s = v.s, !.tw = t.w, !.vw = v.w,
                                                 !.count = @ + BATCH_SIZE],
                                      slice_, ix + BATCH_SIZE, batchend)
                  : v \in {FcmStreamWriter_tput(t.s, st.vw,
                               SubSeq(slice_.value, ix + 1, ix + BATCH_SIZE))} })
           : t \in {DeltaRLEWriter_tput(st.s, st.tw,
                        SubSeq(slice_.ts, ix + 1, ix + BATCH_SIZE))} })

\* for (ix ...; ix < slice->size; ix++) if (!tstream.put(slice->ts[ix])) break;
RECURSIVE put_timestamps(_, _, _, _)
put_timestamps(s, w, tss, ix) ==
    IF ix >= Len(tss) THEN [ok |-> TRUE, s |-> s, w |-> w]
    ELSE Only({ IF ~r.ok THEN r ELSE put_timestamps(r.s, r.w, tss, ix + 1)
                : r \in {DeltaRLEWriter_put(s, w, tss[ix + 1])} })

\* for (ix ...; ix < slice->size; ix++) if (!vstream.put(slice->value[ix])) break;
RECURSIVE put_values(_, _, _, _)
put_values(s, w, values, ix) ==
    IF ix >= Len(values) THEN [ok |-> TRUE, s |-> s, w |-> w]
    ELSE Only({ IF ~r.ok THEN r ELSE put_values(r.s, r.w, values, ix + 1)
                : r \in {FcmStreamWriter_put(s, w, values[ix + 1])} })

\* encode_block, small loop (the do { ... } while (false) block)
encode_rest(st, slice_, tailsize) ==
    Only({
      Only({
        IF ~tc.ok
        THEN [st EXCEPT !.s = tc.s, !.tw = tc.w, !.dropped = TRUE]
        ELSE Only({
               Only({
                 IF ~vc.ok
                 THEN [st EXCEPT !.s = vc.s, !.tw = tc.w, !.vw = vc.w, !.dropped = TRUE]
                 ELSE [s |-> vc.s, tw |-> tc.w, vw |-> vc.w,
                       count |-> st.count + tailsize,
                       dropped |-> st.dropped \/ ~tp.ok \/ ~vp.ok]
                 : vc \in {FcmStreamWriter_commit(vp.s, vp.w)} })
               : vp \in {put_values(tc.s, st.vw, slice_.value, slice_.offset + st.count)} })
        : tc \in {DeltaRLEWriter_commit(tp.s, tp.w)} })
      : tp \in {put_timestamps(st.s, st.tw, slice_.ts, slice_.offset + st.count)} })

\* CompressionUtil::encode_block(slice, buffer, size) on a buffer of at least
\* 14 bytes filled with `fill` (with less, the stores through the handles of
\* allocate go through nullptr): [status, s, slice, count, dropped]
encode_block(slice_, size, fill, kind) ==
    Only({
      Only({
        Only({
          [status |-> "AKU_SUCCESS",
           s |-> [fin.s EXCEPT !.buf = store_bytes(@, 2, U32(fin.count))],
           slice |-> [slice_ EXCEPT !.offset = @ + fin.count],
           count |-> fin.count,
           dropped |-> fin.dropped]
          : fin \in {encode_rest(big, slice_, (slice_.size - slice_.offset) % BATCH_SIZE)} })
        : big \in {encode_batches([s |-> [hdr EXCEPT !.buf = store_bytes(
                                                   store_bytes(@, 0, U16(AKUMULI_VERSION)),
                                                   6, slice_.id)],
                                   tw |-> NewDeltaRLEWriter,
                                   vw |-> NewFcmStreamWriter(kind),
                                   count |-> 0, dropped |-> FALSE],
                                  slice_, slice_.offset,
                                  slice_.offset
                                    + ((slice_.size - slice_.offset) \div BATCH_SIZE)
                                      * BATCH_SIZE)} })
      : hdr \in {allocate(allocate(allocate(NewStream(size), 2, fill).s, 4, fill).s,
                          8, fill).s} })

\* dest->ts[from + i] = vals[i] for the values read
\* CompressionUtil::number_of_elements_in_block(buffer, buffer_size): the
\* first read_raw<uint32_t>() of a reader placed at the start of the buffer
number_of_elements_in_block(data) == load_u32(data, 0)

store_at(arr, from, vals) ==
    [i \in 1..Len(arr) |-> IF i > from /\ i <= from + Len(vals) THEN vals[i - from]
                           ELSE arr[i]]

\* decode_block, large loop: [ok, pos, tr, vr, d, nread]; ok is false where a
\* reader ran out of bytes or met bad data, which leaves decode_block by the
\* reader's exception
RECURSIVE decode_batches(_, _, _, _)
decode_batches(st, data, ix, batchend) ==
    IF ix >= batchend THEN st
    ELSE Only({
           IF ~t.ok
           THEN [st EXCEPT !.ok = FALSE, !.nread = @ + Len(t.vals) + 1,
                           !.d.ts = store_at(@, ix, t.vals)]
           ELSE Only({
                  IF ~v.ok
                  THEN [st EXCEPT !.ok = FALSE, !.nread = @ + BATCH_SIZE,
                                  !.d.ts = store_at(@, ix, t.vals),
                                  !.d.value = store_at(@, ix, v.vals)]
                  ELSE decode_batches([st EXCEPT !.pos = v.pos, !.tr = t.r, !.vr = v.r,
                                                 !.nread = @ + BATCH_SIZE,
                                                 !.d.ts = store_at(@, ix, t.vals),
                                                 !.d.value = store_at(@, ix, v.vals)],
                                      data, ix + BATCH_SIZE, batchend)
                  : v \in {read_values(data, t.pos, st.vr, BATCH_SIZE)} })
           : t \in {read_timestamps(data, st.pos, st.tr, BATCH_SIZE)} })

\* CompressionUtil::decode_block(buffer, buffer_size, dest):
\* [status, dest, nitems, nread]; nread counts the timestamps asked of the
\* reader. "panic" is AKU_PANIC, "throw" the exception of a reader
decode_block(data, dest_, kind) ==
    LET version == read_raw_u16(data, 0).v
        nitems == load_u32(data, 2)
        id == read_raw_u64(data, 6).v
        offset == dest_.offset
        nbatches == (dest_.size - dest_.offset) \div BATCH_SIZE
        tailsize == (dest_.size - dest_.offset) % BATCH_SIZE
        batchend == dest_.offset + nbatches * BATCH_SIZE
    IN  IF version # AKUMULI_VERSION
        THEN [status |-> "panic", dest |-> dest_, nitems |-> nitems, nread |-> 0]
        ELSE IF dest_.size < dest_.offset \/ (dest_.size - offset) < nitems
        THEN [status |-> "AKU_EBAD_ARG", dest |-> [dest_ EXCEPT !.id = id],
              nitems |-> nitems, nread |-> 0]
        ELSE Only({
          IF ~big.ok
          THEN [status |-> "throw", dest |-> big.d, nitems |-> nitems, nread |-> big.nread]
          ELSE Only({
            IF ~t.ok
            THEN [status |-> "throw",
                  dest |-> [big.d EXCEPT !.ts = store_at(@, batchend, t.vals)],
                  nitems |-> nitems, nread |-> big.nread + Len(t.vals) + 1]
            ELSE Only({
              IF ~v.ok
              THEN [status |-> "throw",
                    dest |-> [big.d EXCEPT !.ts = store_at(@, batchend, t.vals),
                                           !.value = store_at(@, batchend, v.vals)],
                    nitems |-> nitems, nread |-> big.nread + tailsize]
              ELSE [status |-> "AKU_SUCCESS",
                    dest |-> [big.d EXCEPT !.ts = store_at(@, batchend, t.vals),
                                           !.value = store_at(@, batchend, v.vals),
                                           !.offset = @ + batchend + tailsize],
                    nitems |-> nitems, nread |-> big.nread + tailsize]
              : v \in {read_values(data, t.pos, big.vr, tailsize)} })
            : t \in {read_timestamps(data, big.pos, big.tr, tailsize)} })
          : big \in {decode_batches([ok |-> TRUE, pos |-> 14, tr |-> NewDeltaRLEReader,
                                     vr |-> NewFcmStreamReader(kind),
                                     d |-> [dest_ EXCEPT !.id = id], nread |-> 0],
                                    data, offset, batchend)} })

---------------------------------------------------------------------------
(* Chunk reorder helpers *)

\* a < b on uint64_t
Less64(a, b) == \E i \in 1..8 : a[i] < b[i] /\ \A j \in (i + 1)..8 : a[j] = b[j]

\* the comparator with <= for <
fn_less_or_equal(keys, lhs, rhs) == ~Less64(keys[rhs], keys[lhs])

\* the comparators of convert_from_chunk_order (keys = header.timestamps) and
\* convert_from_time_order (keys = header.paramids)
fn(keys, lhs, rhs) == Less64(keys[lhs], keys[rhs])

\* std::stable_sort(index.begin(), index.end(), f): each element is moved
\* left past the elements it compares less than
RECURSIVE insert_sorted(_, _, _)
insert_sorted(sorted, ix, keys) ==
    IF sorted = <<>> THEN <<ix>>
    ELSE IF fn(keys, ix, sorted[Len(sorted)])
         THEN insert_sorted(SubSeq(sorted, 1, Len(sorted) - 1), ix, keys)
              \o <<sorted[Len(sorted)]>>
         ELSE sorted \o <<ix>>

RECURSIVE stable_sort_from(_, _, _, _)
stable_sort_from(sorted, index, i, keys) ==
    IF i > Len(index) THEN sorted
    ELSE Only({ stable_sort_from(nxt, index, i + 1, keys)
                : nxt \in {insert_sorted(sorted, index[i], keys)} })

stable_sort(index, keys) == stable_sort_from(<<>>, index, 1, keys)

NewChunk == [paramids |-> <<>>, timestamps |-> <<>>, values |-> <<>>]

\* reorder_chunk_header(header, out, f): [ret, out]
reorder_chunk_header(header, o, keys) ==
    IF Len(header.timestamps) # Len(header.values)
         \/ Len(header.timestamps) # Len(header.paramids)
    THEN [ret |-> FALSE, out |-> o]
    ELSE Only({ [ret |-> TRUE,
                 out |-> [paramids |-> o.paramids
                              \o [k \in 1..Len(index) |-> header.paramids[index[k]]],
                          timestamps |-> o.timestamps
                              \o [k \in 1..Len(index) |-> header.timestamps[index[k]]],
                          values |-> o.values
                              \o [k \in 1..Len(index) |-> header.values[index[k]]]]]
                : index \in {stable_sort([i \in 1..Len(header.timestamps) |-> i], keys)} })

convert_from_chunk_order(header, o) == reorder_chunk_header(header, o, header.timestamps)

convert_from_time_order(header, o) == reorder_chunk_header(header, o, header.paramids)

---------------------------------------------------------------------------
(* Inputs *)

\* bit patterns of doubles: +0.0, -0.0, 1.0, 3.14, a NaN with a payload,
\* -infinity and the smallest denormal
PosZero  == Zero64
NegZero  == <<0, 0, 0, 0, 0, 0, 0, 128>>
One      == <<0, 0, 0, 0, 0, 0, 240, 63>>
Pi314    == <<31, 133, 235, 81, 184, 30, 9, 64>>
NaNPay   == <<1, 0, 0, 0, 0, 0, 248, 127>>
NegInf   == <<0, 0, 0, 0, 0, 0, 240, 255>>
Denormal == <<1, 0, 0, 0, 0, 0, 0, 0>>

Values == {PosZero, NegZero, One, Pi314, NaNPay, NegInf, Denormal}

PredictorKinds == {"fcm", "dfcm"}

\* The caller chooses the first Period values freely; the sequence then repeats
Period == 2
\* longest sequence of doubles put into one FcmStreamWriter
MaxN == 16
\* stream sizes of the double codec sessions: one ample, one that overflows
FcmSizes == {9 * MaxN + 16, 5}

NextValues(seq) ==
    IF Len(seq) < Period THEN Values ELSE {seq[Len(seq) + 1 - Period]}

---------------------------------------------------------------------------
(* Double codec sessions: an FcmStreamWriter fed by put and closed by      *)
(* commit, then an FcmStreamReader calling next on the bytes produced      *)

Idle == <<>>

FcmInit ==
    /\ cap \in FcmSizes
    /\ stream = NewStream(cap)
    /\ prior = 0
    /\ input = <<>>
    /\ \E kind \in PredictorKinds :
          /\ vw = NewFcmStreamWriter(kind)
          /\ rd = [fcm |-> NewFcmStreamReader(kind), pos |-> 0, ok |-> TRUE]
    /\ tw = Idle /\ blk = Idle
    /\ pc = "put"
    /\ hist = <<>>
    /\ vout = <<>>
    /\ chunk = Idle /\ out = Idle /\ ret = Idle /\ slice = Idle /\ dest = Idle

\* vstream.put(value)
FcmPut ==
    /\ pc = "put"
    /\ Len(input) < MaxN
    /\ \E value \in NextValues(input) :
          \E r \in {FcmStreamWriter_put(stream, vw, value)} :
              /\ input' = Append(input, value)
              /\ stream' = r.s
              /\ vw' = r.w
              /\ hist' = Append(hist, [value |-> value, ok |-> r.ok,
                                      predicted |-> predict_next(vw.predictor),
                                      predictor |-> r.w.predictor,
                                      before |-> Len(stream.buf),
                                      after |-> Len(r.s.buf)])
              /\ pc' = IF r.ok THEN "put" ELSE "failed"
    /\ UNCHANGED <<cap, prior, tw, blk, rd, vout, chunk, out, ret, slice, dest>>

\* vstream.commit()
FcmCommit ==
    /\ pc = "put"
    /\ \E r \in {FcmStreamWriter_commit(stream, vw)} :
           /\ stream' = r.s
           /\ vw' = r.w
           /\ pc' = IF r.ok THEN "read" ELSE "failed"
    /\ UNCHANGED <<cap, prior, input, tw, blk, hist, rd, vout, chunk, out, ret, slice, dest>>

\* FcmStreamReader::next on the committed bytes, once per element put
FcmNext ==
    /\ pc = "read"
    /\ rd.ok
    /\ rd.fcm.iter < vw.nelements
    /\ \E r \in {FcmStreamReader_next(stream.buf, rd.pos, rd.fcm)} :
           /\ rd' = [fcm |-> r.r, pos |-> r.pos, ok |-> r.ok]
           /\ vout' = Append(vout, [value |-> r.value, ok |-> r.ok,
                                    predicted |-> predict_next(rd.fcm.predictor)])
    /\ UNCHANGED <<stream, cap, prior, input, vw, tw, blk, pc, hist, chunk, out, ret, slice, dest>>

FcmNext_ == FcmPut \/ FcmCommit \/ FcmNext

SpecFcm == FcmInit /\ [][FcmNext_]_vars

---------------------------------------------------------------------------
(* Block sessions: a DataBlockWriter is constructed on the caller's buffer, *)
(* fed by put and closed                                                   *)

SeriesId == <<239, 190, 173, 222, 0, 0, 0, 0>>   \* 0xDEADBEEF

TsBase == U64(1000)
BigDelta == <<1, 2, 3, 4, 5, 6, 7, 200>>

\* what the caller may put: the step from the previous timestamp, and the value
BlockSamples ==
    {[delta |-> U64(1), value |-> One],
     [delta |-> Zero64, value |-> Pi314],
     [delta |-> BigDelta, value |-> NaNPay]}

\* a chunk that does not compress: every step between timestamps differs
\* from the one before and is at least 2^63 (timestamps going backwards),
\* every value differs from any other in its lowest and its highest byte
IncompressibleSample(k) ==
    [delta |-> <<k % 256, 0, 0, 0, 0, 0, 0, 128>>,
     value |-> <<(k * k * 7 + 3) % 256, 0, 0, 0, 0, 0, (k * 16) % 256,
                 (k * k * 5 + 1) % 256>>]

\* the caller either feeds the incompressible chunk, or chooses the first
\* Period samples freely and repeats them
NextSamples(seq) ==
    IF seq = <<>> THEN BlockSamples \cup {IncompressibleSample(1)}
    ELSE IF seq[1] = IncompressibleSample(1) THEN {IncompressibleSample(Len(seq) + 1)}
    ELSE IF Len(seq) < Period THEN BlockSamples
    ELSE {seq[Len(seq) + 1 - Period]}

\* buffer sizes: too small for the header, room for the header and less than
\* two raw pairs, and the smallest size with room for a chunk
BlockSizes == {10, 14 + 31, 14 + MARGIN}

\* what the caller's buffer holds before the session
Priors == {0, 255}

Init ==
    /\ cap \in BlockSizes
    /\ prior \in Priors
    /\ input = <<>>
    /\ hist = <<>>
    /\ \E kind \in PredictorKinds, asserts \in BOOLEAN :
          \E c \in {DataBlockWriter_new(SeriesId, cap, prior, asserts)} :
              /\ stream = c.s
              /\ tw = c.ts_stream
              /\ vw = NewFcmStreamWriter(kind)
              /\ blk = c.w
              /\ pc = IF c.ok THEN "open" ELSE "panic"
    /\ rd = Idle /\ vout = Idle
    /\ chunk = Idle /\ out = Idle /\ ret = Idle /\ slice = Idle /\ dest = Idle

LastTs == IF hist = <<>> THEN TsBase ELSE hist[Len(hist)].ts

\* writer.put(ts, value)
Put ==
    /\ pc = "open"
    /\ \E smp \in NextSamples(input) :
          \E ts \in {Add64(LastTs, smp.delta)} :
          \E r \in {DataBlockWriter_put(stream, tw, vw, blk, ts, smp.value)} :
              /\ input' = Append(input, smp)
              /\ stream' = r.s
              /\ tw' = r.ts_stream
              /\ vw' = r.val_stream
              /\ blk' = r.w
              /\ hist' = Append(hist, [ts |-> ts, value |-> smp.value,
                                      status |-> r.status, path |-> r.path,
                                      before |-> Len(stream.buf),
                                      after |-> Len(r.s.buf),
                                      index |-> blk.write_index,
                                      room |-> room_for_chunk(stream),
                                      main_before |-> load_u16(stream.buf, 2),
                                      tail_before |-> load_u16(stream.buf, 4),
                                      main_after |-> load_u16(r.s.buf, 2),
                                      tail_after |-> load_u16(r.s.buf, 4)])
              /\ pc' = IF r.status = "success" THEN "open" ELSE r.status
    /\ UNCHANGED <<cap, prior, rd, vout, chunk, out, ret, slice, dest>>

\* writer.close()
Close ==
    /\ pc \in {"open", "overflow"}
    /\ LET r == DataBlockWriter_close(stream, blk)
       IN  stream' = r.s /\ blk' = r.w
    /\ pc' = "closed"
    /\ UNCHANGED <<cap, prior, input, vw, tw, hist, rd, vout, chunk, out, ret, slice, dest>>

Next == Put \/ Close

Spec == Init /\ [][Next]_vars

\* the caller's buffer: the bytes the stream has passed, then what was there
BufferBytes ==
    [i \in 1..cap |-> IF i <= Len(stream.buf) THEN stream.buf[i] ELSE prior]

\* the samples whose put returned success, in order
RECURSIVE AcceptedFrom(_)
AcceptedFrom(h) ==
    IF h = <<>> THEN <<>>
    ELSE (IF Head(h).status = "success"
          THEN <<[ts |-> Head(h).ts, value |-> Head(h).value]>> ELSE <<>>)
         \o AcceptedFrom(Tail(h))

Accepted == AcceptedFrom(hist)

Decoded == DataBlockReader_read(BufferBytes, vw.predictor.kind)

---------------------------------------------------------------------------
(* Reordering: a chunk of up to MaxRows rows is converted once *)

MaxRows == 4

ParamIds == {U64(1), U64(2)}
Timestamps == {U64(10), U64(11), <<0, 0, 0, 0, 0, 0, 0, 128>>}

\* the columns of n rows; the values tell the rows apart
RowTag(i) == U64(i)

DropLast(seq) == SubSeq(seq, 1, Len(seq) - 1)

SortInit ==
    /\ \E n \in 0..MaxRows :
       \E ps \in [1..n -> ParamIds], ts \in [1..n -> Timestamps],
          short \in {"none", "paramids", "timestamps", "values"} :
          /\ short = "none" \/ n > 0
          /\ chunk = [paramids |-> IF short = "paramids" THEN DropLast(ps) ELSE ps,
                      timestamps |-> IF short = "timestamps" THEN DropLast(ts) ELSE ts,
                      values |-> IF short = "values" THEN [i \in 1..(n - 1) |-> RowTag(i)]
                                 ELSE [i \in 1..n |-> RowTag(i)]]
    /\ out = NewChunk
    /\ ret = Idle
    /\ pc = "sort"
    /\ stream = Idle /\ cap = 0 /\ prior = 0 /\ input = Idle /\ vw = Idle /\ tw = Idle
    /\ blk = Idle /\ hist = Idle /\ rd = Idle /\ vout = Idle
    /\ slice = Idle /\ dest = Idle

\* CompressionUtil::convert_from_chunk_order(header, &out)
ConvertFromChunkOrder ==
    /\ pc = "sort" /\ ret = Idle
    /\ \E r \in {convert_from_chunk_order(chunk, out)} :
          /\ out' = r.out
          /\ ret' = [fn |-> "chunk", ok |-> r.ret]
    /\ UNCHANGED <<stream, cap, prior, input, vw, tw, blk, pc, hist, rd, vout, chunk,
                   slice, dest>>

\* CompressionUtil::convert_from_time_order(header, &out)
ConvertFromTimeOrder ==
    /\ pc = "sort" /\ ret = Idle
    /\ \E r \in {convert_from_time_order(chunk, out)} :
          /\ out' = r.out
          /\ ret' = [fn |-> "time", ok |-> r.ret]
    /\ UNCHANGED <<stream, cap, prior, input, vw, tw, blk, pc, hist, rd, vout, chunk,
                   slice, dest>>

SortNext == ConvertFromChunkOrder \/ ConvertFromTimeOrder

SpecSort == SortInit /\ [][SortNext]_vars

---------------------------------------------------------------------------
(* Slice sessions: a SeriesSlice is encoded into a buffer by encode_block;  *)
(* the buffer, or one carrying another version tag, is decoded into a      *)
(* destination slice by decode_block                                       *)

\* most elements in a slice
MaxItems == 18

\* buffer sizes: the header alone, room for a few elements (10 and 12
\* bytes after the header), for about a batch, and ample
SliceSizes == {14, 24, 26, 60, 400}

ValueCycle == <<PosZero, NegZero, One, Pi314, NaNPay, NegInf, Denormal>>

\* the k-th element of the source slice
SliceTs(pattern, k) ==
    IF pattern = "steady" THEN U64(1000 + k) ELSE U64(1000 + 3 * (k \div 2))

SliceValue(pattern, k) ==
    IF pattern = "steady" THEN One ELSE ValueCycle[(k % 7) + 1]

\* what the destination holds before decode_block
DestId == <<7, 0, 0, 0, 0, 0, 0, 0>>
Sentinel == <<170, 170, 170, 170, 170, 170, 170, 170>>

NewDest(size, offset) ==
    [id |-> DestId, ts |-> [i \in 1..size |-> Sentinel],
     value |-> [i \in 1..size |-> Sentinel], size |-> size, offset |-> offset]

\* free capacities offered to decode_block for a block of n elements
DestCapacities(n) == {c \in {n - 1, n, n + 1, n + BATCH_SIZE} : c >= 0}

SliceInit ==
    /\ cap \in SliceSizes
    /\ prior = 0
    /\ \E n \in 0..MaxItems, offset \in {0, 1}, pattern \in {"steady", "mixed"} :
          /\ offset <= n
          /\ slice = [id |-> SeriesId,
                      ts |-> [k \in 1..n |-> SliceTs(pattern, k)],
                      value |-> [k \in 1..n |-> SliceValue(pattern, k)],
                      size |-> n, offset |-> offset]
    /\ input = slice
    /\ \E kind \in PredictorKinds : vw = NewFcmStreamWriter(kind)
    /\ stream = NewStream(cap)
    /\ dest = Idle
    /\ ret = Idle
    /\ pc = "encode"
    /\ tw = Idle /\ blk = Idle /\ hist = Idle /\ rd = Idle /\ vout = Idle
    /\ chunk = Idle /\ out = Idle

\* CompressionUtil::encode_block(&slice, buffer, size)
EncodeBlock ==
    /\ pc = "encode"
    /\ \E r \in {encode_block(slice, cap, prior, vw.predictor.kind)} :
          /\ stream' = r.s
          /\ slice' = r.slice
          /\ ret' = [fn |-> "encode", status |-> r.status, count |-> r.count,
                     dropped |-> r.dropped]
    /\ pc' = "encoded"
    /\ UNCHANGED <<cap, prior, input, vw, tw, blk, hist, rd, vout, chunk, out, dest>>

\* the buffer handed to the decoder carries another version tag
ForeignVersion ==
    /\ pc = "encoded"
    /\ stream' = [stream EXCEPT !.buf = store_bytes(@, 0, U16(AKUMULI_VERSION + 1))]
    /\ pc' = "foreign"
    /\ UNCHANGED <<cap, prior, input, vw, tw, blk, hist, rd, vout, chunk, out, ret,
                   slice, dest>>

\* CompressionUtil::decode_block(buffer, size, &dest)
DecodeBlock ==
    /\ pc \in {"encoded", "foreign"}
    /\ \E c \in DestCapacities(load_u32(stream.buf, 2)), offset \in {0, 2} :
       \E r \in {decode_block(BufferBytes, NewDest(offset + c, offset), vw.predictor.kind)} :
          /\ dest' = r.dest
          /\ ret' = [fn |-> "decode", status |-> r.status, nitems |-> r.nitems,
                     nread |-> r.nread, before |-> NewDest(offset + c, offset),
                     encoded |-> ret]
    /\ pc' = "decoded"
    /\ UNCHANGED <<stream, cap, prior, input, vw, tw, blk, hist, rd, vout, chunk, out,
                   slice>>

\* CompressionUtil::number_of_elements_in_block(buffer, size)
NumberOfElements ==
    /\ pc = "encoded"
    /\ ret' = [fn |-> "count", n |-> number_of_elements_in_block(BufferBytes),
               encoded |-> ret]
    /\ pc' = "counted"
    /\ UNCHANGED <<stream, cap, prior, input, vw, tw, blk, hist, rd, vout, chunk, out,
                   slice, dest>>

SliceNext == EncodeBlock \/ ForeignVersion \/ DecodeBlock \/ NumberOfElements

SpecSlice == SliceInit /\ [][SliceNext]_vars

---------------------------------------------------------------------------
(* Properties of the double codec *)

\* C6: n bit patterns written by put (n times) and commit come back from n
\* calls of next unchanged and in order: the k-th value returned is the k-th
\* value put, bit for bit, for odd and even n.
C6_FcmRoundTrip ==
    pc = "read" =>
        \A k \in 1..Len(vout) : vout[k].ok /\ vout[k].value = input[k]

\* an odd number (at least 3) of patterns, a NaN payload and -0.0 among them,
\* has been written, committed and read back completely
C6_Witness ==
    /\ pc = "read"
    /\ Len(input) % 2 = 1 /\ Len(input) >= 3
    /\ Len(vout) = Len(input)
    /\ input[1] = NaNPay /\ input[2] = NegZero

\* C7: after the k-th put and the k-th next both predictors hold the same
\* state (table, last_hash, last_value) and predicted the same value for
\* sample k.
C7_PredictorsAgree ==
    pc = "read" =>
        \A k \in 1..Len(vout) :
            /\ vout[k].predicted = hist[k].predicted
            /\ (k = Len(vout) => rd.fcm.predictor = hist[k].predictor)

\* the reader has decoded five samples of a sequence of two distinct values
C7_Witness ==
    /\ pc = "read"
    /\ Len(vout) >= 5
    /\ input[1] = Pi314 /\ input[2] = One
    /\ rd.fcm.predictor.table # EmptyTable

\* the samples of a value batch, as its control bytes lay them out
RECURSIVE BatchSamples(_, _, _)
BatchSamples(data, pos, npairs) ==
    IF npairs = 0 \/ pos + 1 > Len(data) THEN <<>>
    ELSE LET c == data[pos + 1]
             la == ((c \div 16) % 8) + 1
             lb == (c % 8) + 1
         IN  IF pos + 1 + la + lb > Len(data) THEN <<>>
             ELSE << [control |-> c, flag |-> c \div 16,
                      payload |-> SubSeq(data, pos + 2, pos + 1 + la)],
                     [control |-> c, flag |-> c % 16,
                      payload |-> SubSeq(data, pos + 2 + la, pos + 1 + la + lb)] >>
                  \o BatchSamples(data, pos + 1 + la + lb, npairs - 1)

ZeroPayload(smp) == \A i \in 1..Len(smp.payload) : smp.payload[i] = 0

ConstantChunk == pc = "read" /\ input = [i \in 1..CHUNK_SIZE |-> One]

\* C9 as stated: in the value batch of 16 samples of 1.0 every sample but the
\* first has a zero flag and zero residual bytes.
C9_AsStated ==
    ConstantChunk =>
        LET smp == BatchSamples(stream.buf, 0, CHUNK_SIZE \div 2)
        IN  /\ Len(smp) = CHUNK_SIZE
            /\ \A k \in 2..CHUNK_SIZE : smp[k].flag = 0 /\ ZeroPayload(smp[k])

\* C9, amended: the first two samples carry a residual (the predictor has
\* seen nothing at its first two contexts); every later sample has a zero
\* residual and every control byte after the first is 0x00.
C9_ConstantChunk ==
    ConstantChunk =>
        LET smp == BatchSamples(stream.buf, 0, CHUNK_SIZE \div 2)
        IN  /\ Len(smp) = CHUNK_SIZE
            /\ ~ZeroPayload(smp[1]) /\ ~ZeroPayload(smp[2])
            /\ \A k \in 3..CHUNK_SIZE :
                  smp[k].control = 0 /\ smp[k].flag = 0 /\ ZeroPayload(smp[k])

\* 16 samples of 1.0 were put and committed
C9_Witness == ConstantChunk /\ Len(stream.buf) > 0

\* the residual of the k-th sample put: its bits XOR the value predicted
Residual(k) == Xor64(hist[k].value, hist[k].predicted)

\* the 64-bit word a payload stands for under its flag: the low-order bytes,
\* or the high-order bytes when bit 3 of the flag is set
Reassemble(payload, flag) ==
    LET n == Len(payload)
    IN  IF flag >= 8 THEN [i \in 1..8 |-> IF i <= 8 - n THEN 0 ELSE payload[i - (8 - n)]]
        ELSE [i \in 1..8 |-> IF i <= n THEN payload[i] ELSE 0]

\* the bytes at from+1..to of the stream are a control byte and the payloads
\* of residuals da and db, each (flag & 7) + 1 bytes long
PairAt(from, to, da, db) ==
    /\ to > from
    /\ LET c == stream.buf[from + 1]
           la == ((c \div 16) % 8) + 1
           lb == (c % 8) + 1
       IN  /\ to - from = 1 + la + lb
           /\ Reassemble(SubSeq(stream.buf, from + 2, from + 1 + la), c \div 16) = da
           /\ Reassemble(SubSeq(stream.buf, from + 2 + la, to), c % 16) = db

PairLength(k) == hist[k].after - hist[k].before

PairFlags(k) ==
    LET c == stream.buf[hist[k].before + 1] IN ((c \div 16) % 8) + (c % 8)

\* C18 as stated: a put at an even index emits nothing, a put at an odd index
\* emits the pair, which occupies (flag_a & 7) + (flag_b & 7) + 4 bytes,
\* between 4 and 18.
C18_AsStated ==
    \A k \in 1..Len(hist) :
        hist[k].ok =>
            IF k % 2 = 1 THEN PairLength(k) = 0
            ELSE /\ PairAt(hist[k].before, hist[k].after, Residual(k - 1), Residual(k))
                 /\ PairLength(k) = PairFlags(k) + 4
                 /\ PairLength(k) >= 4 /\ PairLength(k) <= 18

\* C18, amended: a put at an even index emits nothing; a put at an odd index
\* emits the control byte (prev_flag << 4) | curr_flag, the previous
\* sample's payload and the current one's, each (flag & 7) + 1 bytes, so the
\* pair occupies (flag_a & 7) + (flag_b & 7) + 3 bytes, between 3 and 17.
C18_PairLayout ==
    \A k \in 1..Len(hist) :
        hist[k].ok =>
            IF k % 2 = 1 THEN PairLength(k) = 0
            ELSE /\ PairAt(hist[k].before, hist[k].after, Residual(k - 1), Residual(k))
                 /\ PairLength(k) = PairFlags(k) + 3
                 /\ PairLength(k) >= 3 /\ PairLength(k) <= 17

\* a pair of full-width residuals (17 bytes) was followed by a pair of zero
\* residuals (3 bytes)
C18_Witness ==
    /\ Len(hist) >= 6 /\ hist[6].ok
    /\ PairLength(2) = 17
    /\ PairLength(6) = 3

\* length of the stream when commit was called
BeforeCommit == IF hist = <<>> THEN 0 ELSE hist[Len(hist)].after

---------------------------------------------------------------------------
(* Properties of the block writer *)

HeaderMain == load_u16(BufferBytes, 2)
HeaderTail == load_u16(BufferBytes, 4)

Constructed == pc \in {"open", "overflow", "closed"}

\* C1: after close(), decoding the block from its header counts yields
\* exactly the samples whose put returned success, in order, bit for bit
\* (stated for a buffer that was all zero before the session).
C1_CloseThenDecode ==
    (pc = "closed" /\ prior = 0) => Decoded.ok /\ Decoded.samples = Accepted

\* C2: after close(), main_size + tail_size in the header equals the number
\* of puts that returned success (stated for a buffer that was all zero
\* before the session).
C2_HeaderCounts ==
    (pc = "closed" /\ prior = 0) => HeaderMain + HeaderTail = Len(Accepted)

\* C3: in every state after construction the recorded main_size is a
\* multiple of CHUNK_SIZE and the recorded tail_size is below CHUNK_SIZE.
C3_HeaderShape ==
    Constructed => HeaderMain % CHUNK_SIZE = 0 /\ HeaderTail < CHUNK_SIZE

\* C4: once a put has returned overflow, decoding the buffer recovers exactly
\* the samples whose put returned success before it (stated for a buffer
\* that was all zero before the session).
C4_OverflowThenDecode ==
    (pc = "overflow" /\ prior = 0) => Decoded.ok /\ Decoded.samples = Accepted

\* C5: the session stores no byte at or beyond the end of the caller's
\* buffer (neither through the stream nor through the tail_size pointer),
\* the committed size stays within the capacity, and a raw pair that does not
\* fit makes put return failure, with whatever was written still in bounds.
C5_NoWritePastEnd ==
    /\ Len(stream.buf) <= cap
    /\ Constructed => blk.ptail_size >= 0 /\ blk.ptail_size + 2 <= cap
    /\ \A k \in 1..Len(hist) :
          /\ hist[k].before <= hist[k].after /\ hist[k].after <= cap
          /\ (hist[k].path = "tail" /\ cap - hist[k].before < 16)
                => hist[k].status # "success"
          /\ hist[k].status = "success" /\ hist[k].path = "tail"
                => hist[k].after = hist[k].before + 16

\* a tail put has overflowed after its timestamp was written: seven bytes
\* are left and the value did not go in
C5_Witness ==
    /\ pc = "overflow"
    /\ hist[Len(hist)].path = "tail"
    /\ Len(stream.buf) = cap - 7
    /\ hist[Len(hist)].after = hist[Len(hist)].before + 8

\* C8: a writer constructed on a buffer with arbitrary contents and closed
\* without a put leaves version = current, main_size = 0, tail_size = 0 and
\* series_id = the id given.
C8_EmptyBlockHeader ==
    (pc = "closed" /\ hist = <<>>) =>
        /\ load_u16(BufferBytes, 0) = AKUMULI_VERSION
        /\ HeaderMain = 0 /\ HeaderTail = 0
        /\ SubSeq(BufferBytes, 7, 14) = SeriesId

\* C14: whenever put is called and room_for_chunk() is false, write_index is
\* a multiple of CHUNK_SIZE, at every tail put.
C14_FallbackOnChunkBoundary ==
    \A k \in 1..Len(hist) : ~hist[k].room => hist[k].index % CHUNK_SIZE = 0

\* C15: a flush never fails after room_for_chunk() returned true: every put
\* that completes a chunk finds room for the timestamp batch and the value
\* batch and returns success.
C15_FlushNeverFails ==
    \A k \in 1..Len(hist) :
        hist[k].path = "flush" => hist[k].room /\ hist[k].status = "success"

\* C16: a successful flush adds CHUNK_SIZE to the header's main_size and
\* leaves tail_size; a successful fallback put adds 1 to tail_size and leaves
\* main_size; a put into the scratch changes neither (counts are 16 bits).
C16_HeaderSteps ==
    \A k \in 1..Len(hist) :
        hist[k].status = "success" =>
            CASE hist[k].path = "flush" ->
                    /\ hist[k].main_after = (hist[k].main_before + CHUNK_SIZE) % 65536
                    /\ hist[k].tail_after = hist[k].tail_before
              [] hist[k].path = "tail" ->
                    /\ hist[k].tail_after = (hist[k].tail_before + 1) % 65536
                    /\ hist[k].main_after = hist[k].main_before
              [] hist[k].path = "scratch" ->
                    /\ hist[k].main_after = hist[k].main_before
                    /\ hist[k].tail_after = hist[k].tail_before

\* C17: no put_raw follows a commit of the same underlying stream.
C17_NoWriteAfterCommit == ~stream.late

---------------------------------------------------------------------------
(* Properties of the reorder helpers *)

EqualLengths ==
    /\ Len(chunk.timestamps) = Len(chunk.values)
    /\ Len(chunk.timestamps) = Len(chunk.paramids)

\* the input row that output row i came from, told by its value
SourceRow(i) == CHOOSE k \in 1..Len(chunk.values) : chunk.values[k] = out.values[i]

SortKeys(c) == IF ret.fn = "chunk" THEN c.timestamps ELSE c.paramids

\* C10: on columns of equal length the helpers return true and the output
\* rows are a permutation of the input rows (the three columns moved
\* together), ascending by the key (timestamp for convert_from_chunk_order,
\* paramid for convert_from_time_order), rows with equal keys in their input
\* order; on columns of unequal length they return false and the output is
\* left as it was.
C10_StableReorder ==
    ret # Idle =>
        IF EqualLengths
        THEN LET n == Len(chunk.values)
             IN  /\ ret.ok
                 /\ Len(out.values) = n /\ Len(out.paramids) = n /\ Len(out.timestamps) = n
                 /\ \A i \in 1..n : \E k \in 1..n : chunk.values[k] = out.values[i]
                 /\ {SourceRow(i) : i \in 1..n} = 1..n
                 /\ \A i \in 1..n :
                       /\ out.paramids[i] = chunk.paramids[SourceRow(i)]
                       /\ out.timestamps[i] = chunk.timestamps[SourceRow(i)]
                 /\ \A i, j \in 1..n :
                       i < j =>
                         /\ ~Less64(SortKeys(out)[j], SortKeys(out)[i])
                         /\ SortKeys(out)[i] = SortKeys(out)[j] => SourceRow(i) < SourceRow(j)
        ELSE ~ret.ok /\ out = NewChunk

\* the scenario paramids = [2,1,2,1], timestamps = [10,10,11,11] sorted by
\* timestamp: the output paramids are [2,1,2,1]
C10_Witness ==
    /\ ret # Idle /\ ret.fn = "chunk" /\ ret.ok
    /\ chunk.paramids = <<U64(2), U64(1), U64(2), U64(1)>>
    /\ chunk.timestamps = <<U64(10), U64(10), U64(11), U64(11)>>
    /\ out.paramids = <<U64(2), U64(1), U64(2), U64(1)>>

---------------------------------------------------------------------------
(* Properties of the block functions *)

\* the elements encode_block counted: those of the source slice from its
\* offset on
CountedTs == SubSeq(input.ts, input.offset + 1, input.offset + ret.nitems)
CountedValues == SubSeq(input.value, input.offset + 1, input.offset + ret.nitems)

\* C11: given a destination whose free capacity is below the element count
\* of the block, decode_block returns the bad-argument status and leaves
\* every field of the destination (id, offset, timestamps, values) as it was.
C11_BadArgLeavesDest ==
    (pc = "decoded" /\ load_u16(stream.buf, 0) = AKUMULI_VERSION
       /\ ret.before.size - ret.before.offset < ret.nitems) =>
        /\ ret.status = "AKU_EBAD_ARG"
        /\ dest = ret.before

\* C12: a block whose version is not the current one makes decode_block
\* return the bad-data status, without aborting, and the destination holds
\* no partially decoded data.
C12_BadVersionIsBadData ==
    (pc = "decoded" /\ load_u16(stream.buf, 0) # AKUMULI_VERSION) =>
        /\ ret.status = "AKU_EBAD_DATA"
        /\ dest.ts = ret.before.ts /\ dest.value = ret.before.value

\* C13: encode_block does not return success for an encode in which a write
\* to the byte stream did not fit.
C13_DroppedWriteIsOverflow ==
    (ret # Idle /\ ret.fn = "encode" /\ ret.dropped) => ret.status # "AKU_SUCCESS"

\* C20: decode_block asks the readers for exactly the element count recorded
\* in the header; on success it has written that many timestamps and values
\* from dest->offset on, the elements that were encoded, and every other
\* position of the destination is as before.
C20_DecodesRecordedCount ==
    (pc = "decoded" /\ load_u16(stream.buf, 0) = AKUMULI_VERSION
       /\ ret.status \in {"AKU_SUCCESS", "throw"}) =>
        /\ ret.nread = ret.nitems
        /\ ret.status = "AKU_SUCCESS" =>
              /\ ~ret.encoded.dropped =>
                    /\ SubSeq(dest.ts, ret.before.offset + 1,
                              ret.before.offset + ret.nitems) = CountedTs
                    /\ SubSeq(dest.value, ret.before.offset + 1,
                              ret.before.offset + ret.nitems) = CountedValues
              /\ \A i \in 1..dest.size :
                    (i <= ret.before.offset \/ i > ret.before.offset + ret.nitems) =>
                        dest.ts[i] = Sentinel /\ dest.value[i] = Sentinel

---------------------------------------------------------------------------
(* Order of the sections of a block *)

\* C21: within one DataBlockWriter session the main section precedes the
\* tail: once a put found room_for_chunk() false, every later put finds it
\* false too and takes the uncompressed path, so no compressed batch follows
\* a tail pair, and room_for_chunk() is still false after the last put.
C21_MainPrecedesTail ==
    /\ \A k \in 1..Len(hist) : \A j \in (k + 1)..Len(hist) :
          ~hist[k].room => ~hist[j].room /\ hist[j].path = "tail"
                           /\ hist[j].after - hist[j].before \in {0, 8, 16}
    /\ (hist # <<>> /\ ~hist[Len(hist)].room) => ~room_for_chunk(stream)

\* a session with a flushed chunk followed by two tail puts
C21_Witness ==
    /\ Len(hist) >= CHUNK_SIZE + 2
    /\ hist[CHUNK_SIZE].path = "flush" /\ hist[CHUNK_SIZE].status = "success"
    /\ hist[CHUNK_SIZE + 1].path = "tail" /\ hist[CHUNK_SIZE + 1].status = "success"
    /\ hist[CHUNK_SIZE + 2].path = "tail"

---------------------------------------------------------------------------
(* Counts of encode_block and decode_block *)

\* the block just encoded, read back into a destination with room for
\* exactly the elements the header counts
ReadBack == decode_block(BufferBytes, NewDest(load_u32(stream.buf, 2), 0), vw.predictor.kind)

\* C23: number_of_elements_in_block applied to a buffer that encode_block
\* produced returns the element count encode_block stored in its header.
C23_CountReadBack ==
    (pc = "counted") => ret.n = ret.encoded.count /\ ret.n = load_u32(stream.buf, 2)

\* C22: after encode_block returns, the count in the header and the advance
\* of slice->offset both equal the number of elements whose timestamp and
\* value were completely written: all of them where nothing was dropped, and
\* in every case the counted elements are in the buffer and read back as
\* the elements of the slice from its old offset on.
C22_CountIsWhatWasWritten ==
    (pc = "encoded") =>
        /\ load_u32(stream.buf, 2) = ret.count
        /\ slice.offset - input.offset = ret.count
        /\ ~ret.dropped => ret.count = input.size - input.offset
        /\ ReadBack.status = "AKU_SUCCESS"
        /\ ReadBack.dest.ts = SubSeq(input.ts, input.offset + 1, input.offset + ret.count)
        /\ ReadBack.dest.value
              = SubSeq(input.value, input.offset + 1, input.offset + ret.count)

\* C24: a successful decode_block advances dest->offset by exactly the
\* number of samples it wrote into the destination, whatever the offset it
\* started from, and the new offset stays within the destination.
C24_OffsetAdvance ==
    (pc = "decoded" /\ ret.status = "AKU_SUCCESS") =>
        /\ dest.offset - ret.before.offset = ret.nread
        /\ dest.offset <= dest.size

=============================================================================
